---------------------------- MODULE Spec2Model ----------------------------
(***************************************************************************)
(* Weighted Max-Cut graph (class Graph) and the QAOA objective function    *)
(* (get_expectation, sk_get_exp) of report-checkpoint.ipynb.               *)
(*                                                                         *)
(* Conventions.                                                            *)
(*  - A bitstring is a sequence over {0, 1}; Python's bitstring[u] is      *)
(*    b[u + 1] here.  The empty string "" is << >>.                        *)
(*  - A Python dict is a function; self.adj[u] is adj[u], a function whose *)
(*    DOMAIN is the set of stored neighbours of u.                         *)
(*  - float('-inf') is NegInf; a finite score s is Fin(s).                 *)
(*  - A raised exception is a result record with ok = FALSE.               *)
(*  - count / NUM_SHOTS is kept exact as a fraction [num, den]; floating   *)
(*    point rounding is not modelled.                                      *)
(***************************************************************************)
EXTENDS Integers, Sequences, FiniteSets, TLC

VARIABLES
    N,             \* self.N
    E,             \* self.E
    adj,           \* self.adj
    currentScore,  \* self.currentScore
    currentBest,   \* self.currentBest
    runs,          \* self.runs
    ret,           \* what the last call returned (or raised)
    skRet,         \* what the last sk_get_exp call returned to the optimizer
    pc,            \* "idle"; "loop" while a get_expectation call is inside its loop;
                   \* "randomize" / "pick" while the constructor is inside randomize
    ev,            \* the locals of the get_expectation call in progress
    rnd,           \* the locals of the randomize call in progress
    seen,          \* history: bitstrings scored by update_score since creation / clear_runs
    fresh,         \* history: tracking state of a fresh graph fed the calls made since clear_runs
    cleared,       \* history: clear_runs has been called at least once
    partial,       \* history: an interrupted evaluation registered outcomes and recorded no run
    completed      \* history: get_expectation calls that returned since creation / clear_runs

vars == <<N, E, adj, currentScore, currentBest, runs, ret, skRet, pc, ev, rnd, seen,
          fresh, cleared, partial, completed>>

topology == <<N, E, adj>>
tracking == <<currentScore, currentBest, runs>>
history == <<seen, fresh, cleared, partial, completed>>

-----------------------------------------------------------------------------
(* Bounds of the model. *)

MaxN == 2          \* graphs have 1 .. MaxN vertices
MaxEdgeCalls == 2  \* add_edge is called at most this many times on one graph
MaxSeen == 2       \* at most this many distinct bitstrings are scored between two clear_runs
MaxRuns == 1       \* at most this many run records between two clear_runs
Shots == 2         \* the NUM_SHOTS argument of get_expectation
MaxEvals == 2      \* at most this many direct get_expectation calls between two clear_runs
MaxRandN == 3      \* Graph(n, randomize=True) is built for n in 1 .. MaxRandN

LowWeight == 1     \* randint(1, 100): the lightest weight randomize draws
HighWeight == 100  \* randint(1, 100): the heaviest weight randomize draws

Weights == {-1, 0, 3, 5}          \* weights offered to add_edge
Proposals == {<<0, 0>>, <<1, 2>>} \* stand-ins for the real pairs (gamma, beta)
Expectations == {4}               \* expected value offered to a direct add_run call
RandWeights == {LowWeight, HighWeight}  \* the draws of randint(1, 100) that are tried

Vertices(n) == 0 .. (n - 1)
Bits == {0, 1}
Bitstrings(n) == [1 .. n -> Bits]
\* Bitstrings of length n - 1, n and n + 1: the right length and both wrong ones.
NearBitstrings(n) ==
    UNION {Bitstrings(k) : k \in {m \in {n - 1, n, n + 1} : m >= 0}}

RECURSIVE Pow2(_)
Pow2(n) == IF n = 0 THEN 1 ELSE 2 * Pow2(n - 1)

-----------------------------------------------------------------------------
(* Values. *)

NegInf == [fin |-> FALSE, v |-> 0]
Fin(s) == [fin |-> TRUE, v |-> s]
\* Faulty variant: the comparison turned round, so the worst score is kept.
ExceedsFlipped(score, cs) == (~cs.fin) \/ score < cs.v
\* Python's  score > self.currentScore  with currentScore possibly -inf.
Exceeds(score, cs) == (~cs.fin) \/ score > cs.v

None == [op |-> "none", ok |-> TRUE, val |-> 0]
Returned(op, val) == [op |-> op, ok |-> TRUE, val |-> val]
Raised(op, exc) == [op |-> op, ok |-> FALSE, val |-> exc]

Frac(num, den) == [num |-> num, den |-> den]
Neg(q) == [num |-> (-1) * q.num, den |-> q.den]


-----------------------------------------------------------------------------
(* class Graph: topology. *)

\* self.adj = {n: dict() for n in range(N)}
EmptyAdj(n) == [u \in Vertices(n) |-> [v \in {} |-> 0]]

\* add_edge: self.E += 1; self.adj[u][v] = weight.  Nothing is validated.
add_edge(e, a, u, v, weight) ==
    [E |-> e + 1,
     adj |-> [a EXCEPT ![u] = [x \in (DOMAIN a[u]) \cup {v} |->
                                  IF x = v THEN weight ELSE a[u][x]]]]

\* get_edges: one triple (u, v, weight) per entry of every neighbour dict.
get_edges(a) == UNION {{<<u, v, a[u][v]>> : v \in DOMAIN a[u]} : u \in DOMAIN a}

\* Faulty variant: an edge counts only when u is on side 1 and v on side 0.
CutDirected(b, u, v) == b[u + 1] = 1 /\ b[v + 1] = 0
\* The test  bitstring[u] != bitstring[v]  of get_score and edges_cut.
Cut(b, u, v) == b[u + 1] # b[v + 1]

\* Faulty variant: longer bitstrings are let through.
LengthAtLeast(b, n) == Len(b) >= n
\* assert len(bitstring) == self.N
LengthOk(b, n) == Len(b) = n

RECURSIVE SumCut(_, _)
\* The double loop of get_score over a set of edges: adds the weight of every cut edge.
SumCut(es, b) ==
    IF es = {} THEN 0
    ELSE LET e == CHOOSE x \in es : TRUE
         IN  (IF Cut(b, e[1], e[2]) THEN e[3] ELSE 0) + SumCut(es \ {e}, b)

get_score(a, n, b) ==
    IF ~LengthOk(b, n) THEN Raised("get_score", "AssertionError")
    ELSE Returned("get_score", SumCut(get_edges(a), b))

\* edges_cut has no length assertion: indexing past the end raises IndexError.
edges_cut(a, b) ==
    IF \E e \in get_edges(a) : e[1] >= Len(b) \/ e[2] >= Len(b)
    THEN Raised("edges_cut", "IndexError")
    ELSE Returned("edges_cut",
                  Cardinality({e \in get_edges(a) : Cut(b, e[1], e[2])}))

RECURSIVE Bin(_)
\* bin(i)[2:]: the binary digits of i, most significant first, no leading zero.
Bin(i) == IF i < 2 THEN <<i>> ELSE Append(Bin(i \div 2), i % 2)

\* (self.N - len(bitstring)) * "0" + bitstring; a negative count repeats nothing.
ZeroPad(n, s) == [k \in 1 .. (IF n > Len(s) THEN n - Len(s) ELSE 0) |-> 0] \o s

\* Faulty variant: the whole range 0 .. 2^N - 1 is scanned.
HalfRangeWhole(n) == Pow2(n)
\* ceil((2 ** self.N) / 2)
HalfRange(n) == (Pow2(n) + 1) \div 2

RECURSIVE OptLoop(_, _, _, _, _)
\* The loop of optimal_score from index i on; best_val is a list.
OptLoop(a, n, i, best, best_val) ==
    IF i >= HalfRange(n) THEN Returned("optimal_score", <<best, best_val>>)
    ELSE LET bitstring == ZeroPad(n, Bin(i))
             sc == get_score(a, n, bitstring)
         IN  IF ~sc.ok THEN Raised("optimal_score", sc.val)
             ELSE IF sc.val > best THEN OptLoop(a, n, i + 1, sc.val, <<bitstring>>)
             ELSE IF sc.val = best THEN OptLoop(a, n, i + 1, best, Append(best_val, bitstring))
             ELSE OptLoop(a, n, i + 1, best, best_val)

optimal_score(a, n) == OptLoop(a, n, 0, 0, << >>)

-----------------------------------------------------------------------------
(* class Graph: best-found tracking and run history. *)

\* __init__: currentScore = float('-inf'); currentBest = ""; runs = []
InitTracking == [currentScore |-> NegInf, currentBest |-> << >>, runs |-> << >>]

\* update_score on tracking state t: the new tracking state and what the call returns.
update_score(a, n, t, bitstring) ==
    LET score == get_score(a, n, bitstring)
    IN  IF ~score.ok THEN [t |-> t, ret |-> Raised("update_score", score.val)]
        ELSE [t |-> IF Exceeds(score.val, t.currentScore)
                    THEN [t EXCEPT !.currentScore = Fin(score.val),
                                   !.currentBest = bitstring]
                    ELSE t,
              ret |-> Returned("update_score", score.val)]

\* Faulty variant: currentBest is not reset.
clear_runs_keeps_best(t) == [t EXCEPT !.currentScore = NegInf, !.runs = << >>]
\* clear_runs: currentScore = float('-inf'); currentBest = ""; runs = []
clear_runs(t) == [t EXCEPT !.currentScore = NegInf, !.currentBest = << >>, !.runs = << >>]

\* Faulty variant: the record is put in front of the earlier ones.
add_run_front(t, gamma, beta, expected_value) ==
    [t EXCEPT !.runs = <<<<gamma, beta, expected_value>>>> \o @]
\* add_run: self.runs.append([gamma, beta, expected_value])
add_run(t, gamma, beta, expected_value) ==
    [t EXCEPT !.runs = Append(@, <<gamma, beta, expected_value>>)]

-----------------------------------------------------------------------------
(* get_expectation, statement by statement, and the wrapper handed to the      *)
(* optimizers.                                                                 *)

\* The locals of a call: x = (gamma, beta), the numerator of exp over NUM_SHOTS,
\* the keys of result_dict visited so far and the sum of their counts.
NoEval == [x |-> <<0, 0>>, exp |-> 0, done |-> {}, total |-> 0]

\* exp = 0, before  for bitstring in result_dict
ExpBegin(x) == [x |-> x, exp |-> 0, done |-> {}, total |-> 0]

\* One iteration:  prob = count / NUM_SHOTS; score = g.update_score(bitstring);
\* exp += score * prob.
ExpStep(a, n, t, e, bitstring, count) ==
    LET r == update_score(a, n, t, bitstring)
    IN  [t |-> r.t,
         ok |-> r.ret.ok,
         ev |-> IF r.ret.ok
                THEN [e EXCEPT !.exp = @ + r.ret.val * count,
                               !.done = @ \cup {bitstring},
                               !.total = @ + count]
                ELSE e]

\* After the loop:  g.add_run(gamma, beta, exp);  return exp
ExpReturn(t, e, NUM_SHOTS) ==
    [t |-> add_run(t, e.x[1], e.x[2], Frac(e.exp, NUM_SHOTS)),
     ret |-> Returned("get_expectation", Frac(e.exp, NUM_SHOTS))]

\* Faulty variant: the sign is not flipped.
sk_get_exp_unsigned(r) ==
    IF r.ok THEN Returned("sk_get_exp", r.val) ELSE Raised("sk_get_exp", r.val)
\* sk_get_exp = lambda x: -1*get_expectation(x, inst); an exception passes through.
sk_get_exp(r) ==
    IF r.ok THEN Returned("sk_get_exp", Neg(r.val)) ELSE Raised("sk_get_exp", r.val)

-----------------------------------------------------------------------------
(* Graph.randomize. *)

\* set([(x,y) for x in range(self.N) for y in range(self.N) if x != y])
AllPairs(n) == {e \in Vertices(n) \X Vertices(n) : e[1] # e[2]}

\* e[::-1]
Reverse(e) == <<e[2], e[1]>>

\* random.randint(lo, hi): any integer of lo .. hi; ValueError on an empty range.
RandInt(lo, hi) ==
    IF lo > hi THEN {Raised("randint", "ValueError")}
    ELSE {Returned("randint", k) : k \in lo .. hi}

\* random.choice(list(pool)): any element; IndexError on an empty list.
Choice(pool) ==
    IF pool = {} THEN {Raised("choice", "IndexError")}
    ELSE {Returned("choice", e) : e \in pool}

\* Faulty variant: the reversed pair stays in the pool.
RemoveOnlyPicked(pool, e) == Returned("remove", pool \ {e})
\* all_possible_edges.remove(e); all_possible_edges.remove(e[::-1])
\* set.remove raises KeyError when the element is missing.
RemovePicked(pool, e) ==
    IF e \in pool /\ Reverse(e) \in pool \ {e}
    THEN Returned("remove", pool \ {e, Reverse(e)})
    ELSE Raised("remove", "KeyError")

\* No randomize call is in progress.
NoRand == [all_possible_edges |-> {}, left |-> 0]

-----------------------------------------------------------------------------
(* Helpers of the actions. *)

T == [currentScore |-> currentScore, currentBest |-> currentBest, runs |-> runs]

SetTracking(t) ==
    /\ currentScore' = t.currentScore
    /\ currentBest' = t.currentBest
    /\ runs' = t.runs

\* The state right after  Graph(n, randomize=False).
Created(n) ==
    /\ N = n
    /\ E = 0
    /\ adj = EmptyAdj(n)
    /\ currentScore = InitTracking.currentScore
    /\ currentBest = InitTracking.currentBest
    /\ runs = InitTracking.runs

NoCallYet ==
    /\ ret = None
    /\ skRet = None
    /\ pc = "idle"
    /\ ev = NoEval
    /\ rnd = NoRand
    /\ seen = {}
    /\ fresh = InitTracking
    /\ cleared = FALSE
    /\ partial = FALSE
    /\ completed = 0

-----------------------------------------------------------------------------
(* Building a graph and querying it:  g = Graph(n, randomize=False), then      *)
(* add_edge, get_edges, get_score, edges_cut and optimal_score in any order.   *)

Init ==
    /\ \E n \in 1 .. MaxN : Created(n)
    /\ NoCallYet

AddEdge(u, v, weight) ==
    /\ E < MaxEdgeCalls
    /\ LET g == add_edge(E, adj, u, v, weight)
       IN  /\ E' = g.E
           /\ adj' = g.adj
    /\ ret' = None
    /\ UNCHANGED <<N, rnd, tracking, skRet, pc, ev, history>>

GetEdges ==
    /\ ret' = Returned("get_edges", get_edges(adj))
    /\ UNCHANGED <<topology, rnd, tracking, skRet, pc, ev, history>>

GetScore(b) ==
    /\ ret' = get_score(adj, N, b)
    /\ UNCHANGED <<topology, rnd, tracking, skRet, pc, ev, history>>

EdgesCut(b) ==
    /\ ret' = edges_cut(adj, b)
    /\ UNCHANGED <<topology, rnd, tracking, skRet, pc, ev, history>>

OptimalScore ==
    /\ ret' = optimal_score(adj, N)
    /\ UNCHANGED <<topology, rnd, tracking, skRet, pc, ev, history>>

NextGraph ==
    \/ \E u, v \in Vertices(N), weight \in Weights : AddEdge(u, v, weight)
    \/ GetEdges
    \/ \E b \in NearBitstrings(N) : GetScore(b)
    \/ \E b \in NearBitstrings(N) : EdgesCut(b)
    \/ OptimalScore

SpecGraph == Init /\ [][NextGraph]_vars

-----------------------------------------------------------------------------
(* Optimising on a graph whose topology is fixed.                              *)

\* The weight given to the edge (u, u + 1) of the path 0 - 1 - 2 - ...
PathWeight(u) == IF u % 2 = 0 THEN 5 ELSE 3

RECURSIVE BuildGraph(_, _)
\* The graph after add_edge(u, u + 1, PathWeight(u)) for every u in us, from g on.
BuildGraph(g, us) ==
    IF us = {} THEN g
    ELSE LET u == CHOOSE x \in us : TRUE
         IN  BuildGraph(add_edge(g.E, g.adj, u, u + 1, PathWeight(u)), us \ {u})

\* Graph(n, randomize=False) followed by add_edge calls for some edges of the path.
InitRun ==
    /\ \E n \in 1 .. MaxN : \E us \in SUBSET (0 .. (n - 2)) :
           LET g == BuildGraph([E |-> 0, adj |-> EmptyAdj(n)], us)
           IN  /\ N = n
               /\ E = g.E
               /\ adj = g.adj
    /\ currentScore = InitTracking.currentScore
    /\ currentBest = InitTracking.currentBest
    /\ runs = InitTracking.runs
    /\ NoCallYet

UpdateScore(b) ==
    /\ pc = "idle"
    /\ b \in seen \/ Len(b) # N \/ Cardinality(seen) < MaxSeen
    /\ LET r == update_score(adj, N, T, b)
       IN  /\ SetTracking(r.t)
           /\ ret' = r.ret
           /\ seen' = IF r.ret.ok THEN seen \cup {b} ELSE seen
    /\ fresh' = update_score(adj, N, fresh, b).t
    /\ skRet' = None
    /\ UNCHANGED <<topology, rnd, pc, ev, cleared, partial, completed>>

AddRun(x, expected_value) ==
    /\ pc = "idle"
    /\ Len(runs) < MaxRuns
    /\ SetTracking(add_run(T, x[1], x[2], expected_value))
    /\ fresh' = add_run(fresh, x[1], x[2], expected_value)
    /\ ret' = None
    /\ skRet' = None
    /\ UNCHANGED <<topology, rnd, pc, ev, seen, cleared, partial, completed>>

\* Faulty variant: clear_runs also empties the graph.
ClearRunsAndEdges ==
    /\ pc = "idle"
    /\ SetTracking(clear_runs(T))
    /\ E' = 0
    /\ adj' = EmptyAdj(N)
    /\ fresh' = InitTracking
    /\ cleared' = TRUE
    /\ seen' = {}
    /\ partial' = FALSE
    /\ completed' = 0
    /\ ret' = None
    /\ skRet' = None
    /\ UNCHANGED <<N, rnd, pc, ev>>

ClearRuns ==
    /\ pc = "idle"
    /\ SetTracking(clear_runs(T))
    /\ fresh' = InitTracking
    /\ cleared' = TRUE
    /\ seen' = {}
    /\ partial' = FALSE
    /\ completed' = 0
    /\ ret' = None
    /\ skRet' = None
    /\ UNCHANGED <<topology, rnd, pc, ev>>

NextTrack ==
    \/ \E b \in NearBitstrings(N) : UpdateScore(b)
    \/ \E x \in Proposals, expected_value \in Expectations : AddRun(x, Frac(expected_value, 1))
    \/ ClearRuns

\* update_score, add_run and clear_runs called directly, in any order.
SpecTrack == InitRun /\ [][NextTrack]_vars

RECURSIVE Built(_, _)
\* The graphs on n vertices that at most k add_edge calls can build.
Built(n, k) ==
    IF k = 0 THEN {[E |-> 0, adj |-> EmptyAdj(n)]}
    ELSE LET prev == Built(n, k - 1)
         IN  prev \cup {add_edge(g.E, g.adj, u, v, weight) :
                           g \in prev, u \in Vertices(n), v \in Vertices(n), weight \in Weights}

\* Graph(n, randomize=False) followed by any add_edge calls.
InitBuilt ==
    /\ \E n \in 1 .. MaxN : \E g \in Built(n, MaxEdgeCalls) :
           /\ N = n
           /\ E = g.E
           /\ adj = g.adj
    /\ currentScore = InitTracking.currentScore
    /\ currentBest = InitTracking.currentBest
    /\ runs = InitTracking.runs
    /\ NoCallYet

\* update_score, add_run and clear_runs on whatever graph add_edge has built.
SpecBuilt == InitBuilt /\ [][NextTrack]_vars

\* Arguments offered to the queries: every bitstring of the right length, and "".
QueryArgs(n) == Bitstrings(n) \cup {<< >>}

NextFrame ==
    \/ NextTrack
    \/ GetEdges
    \/ \E b \in QueryArgs(N) : GetScore(b)
    \/ \E b \in QueryArgs(N) : EdgesCut(b)
    \/ OptimalScore

\* The three tracking operations and the four queries called in any order.
SpecFrame == InitRun /\ [][NextFrame]_vars

-----------------------------------------------------------------------------
(* An optimizer calling sk_get_exp(x), which calls get_expectation(x, inst);   *)
(* a KeyboardInterrupt may arrive between any two statements.                  *)

\* sk_get_exp(x) is called and get_expectation reaches its loop.
SkGetExp(x) ==
    /\ pc = "idle"
    /\ Len(runs) < MaxRuns
    /\ pc' = "loop"
    /\ ev' = ExpBegin(x)
    /\ ret' = None
    /\ skRet' = None
    /\ UNCHANGED <<topology, rnd, tracking, history>>

\* The loop visits the next key of result_dict, bitstring, whose count is count.
\* The counts of one result_dict add up to Shots + 1 at most: fewer than Shots and
\* more than Shots are both malformed answers.
LoopStep(bitstring, count) ==
    /\ pc = "loop"
    /\ bitstring \notin ev.done
    /\ Cardinality(seen \cup {bitstring}) <= MaxSeen
    /\ ev.total + count <= Shots + 1
    /\ LET r == ExpStep(adj, N, T, ev, bitstring, count)
       IN  /\ SetTracking(r.t)
           /\ ev' = r.ev
           /\ seen' = seen \cup {bitstring}
    /\ fresh' = ExpStep(adj, N, fresh, ev, bitstring, count).t
    /\ UNCHANGED <<topology, rnd, ret, skRet, pc, cleared, partial, completed>>

\* result_dict is exhausted: add_run, and both functions return.
Return ==
    /\ pc = "loop"
    /\ LET r == ExpReturn(T, ev, Shots)
       IN  /\ SetTracking(r.t)
           /\ ret' = r.ret
           /\ skRet' = sk_get_exp(r.ret)
    /\ fresh' = ExpReturn(fresh, ev, Shots).t
    /\ pc' = "idle"
    /\ ev' = NoEval
    /\ completed' = completed + 1
    /\ UNCHANGED <<topology, rnd, seen, cleared, partial>>

\* KeyboardInterrupt inside the loop or right after it, before add_run.
Interrupt ==
    /\ pc = "loop"
    /\ ret' = Raised("get_expectation", "KeyboardInterrupt")
    /\ skRet' = sk_get_exp(ret')
    /\ partial' = (partial \/ ev.done # {})
    /\ pc' = "idle"
    /\ ev' = NoEval
    /\ UNCHANGED <<topology, rnd, tracking, seen, fresh, cleared, completed>>

NextEval ==
    \/ \E x \in Proposals : SkGetExp(x)
    \/ \E bitstring \in Bitstrings(N), count \in 1 .. Shots : LoopStep(bitstring, count)
    \/ Return
    \/ Interrupt

SpecEval == InitRun /\ [][NextEval]_vars

-----------------------------------------------------------------------------
(* A caller that evaluates one graph several times, as hold_constant and       *)
(* instance_cost do, calling get_expectation(x, g) directly, and that may call *)
(* g.clear_runs() between two evaluations, as compare_optimizers does.         *)

\* get_expectation(x, g) is called and reaches its loop.
GetExpectation(x) ==
    /\ pc = "idle"
    /\ Len(runs) < MaxEvals
    /\ pc' = "loop"
    /\ ev' = ExpBegin(x)
    /\ ret' = None
    /\ skRet' = None
    /\ UNCHANGED <<topology, rnd, tracking, history>>

\* result_dict is exhausted: add_run, and get_expectation returns to its caller.
ReturnDirect ==
    /\ pc = "loop"
    /\ LET r == ExpReturn(T, ev, Shots)
       IN  /\ SetTracking(r.t)
           /\ ret' = r.ret
    /\ fresh' = ExpReturn(fresh, ev, Shots).t
    /\ pc' = "idle"
    /\ ev' = NoEval
    /\ completed' = completed + 1
    /\ UNCHANGED <<topology, rnd, skRet, seen, cleared, partial>>

\* Every outcome is met with a count of 1: the counts play no part in the
\* bookkeeping of runs.
NextSession ==
    \/ \E x \in Proposals : GetExpectation(x)
    \/ \E bitstring \in Bitstrings(N) : LoopStep(bitstring, 1)
    \/ ReturnDirect
    \/ ClearRuns

SpecSession == InitRun /\ [][NextSession]_vars

-----------------------------------------------------------------------------
(* g = Graph(n, randomize=True): __init__ sets the fields and calls randomize. *)

\* __init__ has set the fields and is about to call self.randomize().
InitRandom ==
    /\ \E n \in 1 .. MaxRandN : Created(n)
    /\ ret = None
    /\ skRet = None
    /\ pc = "randomize"
    /\ ev = NoEval
    /\ rnd = NoRand
    /\ seen = {}
    /\ fresh = InitTracking
    /\ cleared = FALSE
    /\ partial = FALSE
    /\ completed = 0

\* randomize up to its loop: the pool, the assertion, and num_edges = r.
RandomizeBegin(r) ==
    /\ pc = "randomize"
    /\ IF Cardinality(AllPairs(N)) # N * (N - 1)
       THEN /\ ret' = Raised("randomize", "AssertionError")
            /\ pc' = "idle"
            /\ rnd' = NoRand
       ELSE IF ~r.ok
       THEN /\ ret' = Raised("randomize", r.val)
            /\ pc' = "idle"
            /\ rnd' = NoRand
       ELSE /\ ret' = None
            /\ pc' = "pick"
            /\ rnd' = [all_possible_edges |-> AllPairs(N), left |-> r.val]
    /\ UNCHANGED <<topology, tracking, skRet, ev, history>>

\* One iteration of the loop: c is what choice() gives, weight what randint(1, 100)
\* gives; the call returns after the last iteration.
RandomizePick(c, weight) ==
    /\ pc = "pick"
    /\ LET p == IF c.ok THEN RemovePicked(rnd.all_possible_edges, c.val) ELSE c
       IN  IF ~p.ok
           THEN /\ ret' = Raised("randomize", p.val)
                /\ pc' = "idle"
                /\ rnd' = NoRand
                /\ UNCHANGED <<E, adj>>
           ELSE /\ LET g == add_edge(E, adj, c.val[1], c.val[2], weight)
                   IN  /\ E' = g.E
                       /\ adj' = g.adj
                /\ ret' = None
                /\ IF rnd.left = 1
                   THEN /\ pc' = "idle"
                        /\ rnd' = NoRand
                   ELSE /\ pc' = "pick"
                        /\ rnd' = [all_possible_edges |-> p.val, left |-> rnd.left - 1]
    /\ UNCHANGED <<N, tracking, skRet, ev, history>>

NextRandom ==
    \/ \E r \in RandInt(1, Cardinality(AllPairs(N)) \div 2) : RandomizeBegin(r)
    \/ \E c \in Choice(rnd.all_possible_edges), weight \in RandWeights :
           RandomizePick(c, weight)

SpecRandom == InitRandom /\ [][NextRandom]_vars

-----------------------------------------------------------------------------
(* Properties of a graph under construction (SpecGraph). *)

\* The bitwise complement of b.
Comp(b) == [i \in 1 .. Len(b) |-> 1 - b[i]]

RECURSIVE Value(_)
\* The integer whose binary numeral is b, most significant digit first.
Value(b) == IF Len(b) = 0 THEN 0 ELSE 2 * Value(SubSeq(b, 1, Len(b) - 1)) + b[Len(b)]

ScoreOf(b) == get_score(adj, N, b).val

\* The largest score of any of the 2^N bitstrings of length N.
MaxCut ==
    LET scores == {ScoreOf(b) : b \in Bitstrings(N)}
    IN  CHOOSE m \in scores : \A k \in scores : k <= m

\* The bitstrings that are numerals of 0 .. ceil(2^N / 2) - 1.
ExaminedHalf == {b \in Bitstrings(N) : 2 * Value(b) < Pow2(N)}

\* C2: optimal_score() returns (m, S) with m the largest score over all 2^N
\* bitstrings and S exactly the bitstrings of the examined half that score m,
\* each listed once; on a graph without edges m = 0 and S is the whole,
\* non-empty, examined half.
C2_OptimalScoreIsMaxCut ==
    LET r == optimal_score(adj, N)
        m == MaxCut
        S == {b \in ExaminedHalf : ScoreOf(b) = m}
    IN  /\ r.ok
        /\ r.val[1] = m
        /\ {r.val[2][i] : i \in 1 .. Len(r.val[2])} = S
        /\ Len(r.val[2]) = Cardinality(S)
        /\ get_edges(adj) = {} => (r.val[1] = 0 /\ S = ExaminedHalf /\ S # {})

\* optimal_score has been called on a graph with a positive cut whose best
\* assignments include one outside the examined half.
C2_Witness ==
    /\ ret.op = "optimal_score"
    /\ ret.ok
    /\ ret.val[1] > 0
    /\ Len(ret.val[2]) >= 1
    /\ \E b \in Bitstrings(N) \ ExaminedHalf : ScoreOf(b) = ret.val[1]

\* C3: add_edge rejects u == v and weight <= 0, so no stored edge is a
\* self-loop or has a non-positive weight.
C3_NoInvalidEdgeStored == \A e \in get_edges(adj) : e[1] # e[2] /\ e[3] > 0

\* C4: the edge counter E equals the number of triples edges() returns, also
\* after add_edge overwrote the weight of a stored pair.
C4_EdgeCounterMatchesEdges == E = Cardinality(get_edges(adj))

\* C10: a bitstring of length N and its bitwise complement have the same
\* score and the same edges_cut.
C10_CutSymmetry ==
    \A b \in Bitstrings(N) :
        /\ get_score(adj, N, b) = get_score(adj, N, Comp(b))
        /\ edges_cut(adj, b) = edges_cut(adj, Comp(b))

\* get_score has returned a positive score on a graph holding an edge in each
\* direction, or edges_cut a positive count.
C10_Witness ==
    /\ ret.op \in {"get_score", "edges_cut"}
    /\ ret.ok
    /\ ret.val > 0
    /\ Cardinality(get_edges(adj)) >= 2

-----------------------------------------------------------------------------
(* Properties of the best-found tracking (SpecTrack). *)

\* C1: once update_score has scored some bitstrings since creation or the last
\* clear_runs, currentScore is the largest of their scores and currentBest is
\* one of them that scores currentScore; and every update_score call on a
\* bitstring of length N returns the score of that bitstring.
C1_BestIsMaxOfSeen ==
    /\ [](seen # {} =>
             /\ currentScore.fin
             /\ currentBest \in seen
             /\ ScoreOf(currentBest) = currentScore.v
             /\ \A b \in seen : ScoreOf(b) <= currentScore.v)
    /\ [][ret'.op = "update_score" =>
              \A b \in Bitstrings(N) :
                  UpdateScore(b) => ret' = Returned("update_score", ScoreOf(b))]_vars

\* update_score has just returned a score below the best of two or more
\* scored bitstrings: a call that set no new best.
C1_Witness ==
    /\ Cardinality(seen) >= 2
    /\ ret.op = "update_score"
    /\ ret.ok
    /\ ret.val < currentScore.v

\* C5: after clear_runs, whatever came before it, currentScore, currentBest
\* and runs are at every step those of a freshly created graph of the same
\* topology given the calls made since the clear_runs.
C5_ClearRunsRestoresFresh == cleared => T = fresh

\* clear_runs was called and a best and a run have been recorded since.
C5_Witness ==
    /\ cleared
    /\ currentScore.fin
    /\ currentScore.v > 0
    /\ Len(runs) >= 1

\* C8: get_score raises on every bitstring shorter or longer than N, and
\* update_score on such a bitstring raises too and leaves currentScore,
\* currentBest and runs as they were.
C8_WrongLengthRejected ==
    \A b \in NearBitstrings(N) :
        Len(b) # N =>
            /\ ~get_score(adj, N, b).ok
            /\ ~update_score(adj, N, T, b).ret.ok
            /\ update_score(adj, N, T, b).t = T

\* update_score has just raised while a best found earlier is still in place.
C8_Witness ==
    /\ ret.op = "update_score"
    /\ ~ret.ok
    /\ currentScore.fin
    /\ currentBest \in seen

-----------------------------------------------------------------------------
(* Properties of the objective function (SpecEval). *)

\* C6: whenever no evaluation is in progress, every evaluation that registered
\* an outcome through update_score has also recorded its run: none was cut
\* short with its registrations in place and its run record missing.
C6_NoPartialEvaluation == pc = "idle" => ~partial

C9_MalformedRejected ==
    [][(Return /\ (ev.done = {} \/ ev.total # Shots)) => (~ret'.ok /\ runs' = runs)]_vars


\* C11: A graph built by randomize on n >= 2 vertices stores every unordered pair
\* of vertices at most once, stores no self-loop, has every weight in 1 .. 100 and
\* an edge counter equal to the number of stored edges; when randomize has returned,
\* 1 <= E <= n(n-1)/2; and randomize never raises: in particular its loop never picks
\* from an exhausted pool.
C11_RandomizeWellFormed ==
    N >= 2 =>
        LET edges == get_edges(adj)
        IN  /\ \A e \in edges : e[1] # e[2] /\ e[3] >= LowWeight /\ e[3] <= HighWeight
            /\ \A e, f \in edges : {e[1], e[2]} = {f[1], f[2]} => e = f
            /\ E = Cardinality(edges)
            /\ 2 * E <= N * (N - 1)
            /\ ret.ok
            /\ pc = "pick" => rnd.left >= 1 /\ rnd.all_possible_edges # {}
            /\ pc = "idle" => E >= 1

\* randomize has returned a graph with several edges, one of them stored as (u, v)
\* with u > v and one of the heaviest weight.
C11_Witness ==
    /\ pc = "idle"
    /\ ret = None
    /\ E >= 2
    /\ 2 * E = N * (N - 1)
    /\ \E e \in get_edges(adj) : e[1] > e[2]
    /\ \E e \in get_edges(adj) : e[3] = HighWeight

QueryOps == {"get_edges", "get_score", "edges_cut", "optimal_score"}

\* C12: update_score, add_run and clear_runs leave N, E and adj as they were;
\* get_score, edges_cut, get_edges and optimal_score leave the whole object as it
\* was (topology, best score, best bitstring, runs); and get_edges returns the edges
\* of the unchanged adjacency, so two calls with no add_edge in between return the
\* same set.
C12_FrameEffects ==
    /\ [][/\ topology' = topology
          /\ ret'.op \in QueryOps => tracking' = tracking
          /\ (ret.op = "get_edges" /\ ret'.op = "get_edges") => ret' = ret]_vars
    /\ [](ret.op = "get_edges" => ret.val = get_edges(adj))

\* get_edges answers with a non-empty set after clear_runs, update_score and add_run
\* have all acted on the graph.
C12_Witness ==
    /\ cleared
    /\ currentScore.fin
    /\ Len(runs) >= 1
    /\ ret.op = "get_edges"
    /\ ret.val # {}
    /\ E >= 1

\* runs has grown at its end only: every earlier record is where and what it was.
IsPrefix(s, t) == Len(s) <= Len(t) /\ \A i \in 1 .. Len(s) : t[i] = s[i]

\* C13: Between two clear_runs calls the length of runs is the number of
\* get_expectation calls that have returned.  The step on which a call returns
\* appends the one record (gamma, beta, expectation) of that call at the end of runs
\* and registers nothing; the steps of the loop, which register the outcomes, leave
\* runs alone; and no step but clear_runs changes or removes an earlier record.
C13_OneRecordPerEvaluation ==
    /\ [](Len(runs) = completed)
    /\ [][/\ ReturnDirect =>
                /\ runs' = Append(runs, <<ev.x[1], ev.x[2], Frac(ev.exp, Shots)>>)
                /\ currentScore' = currentScore
                /\ currentBest' = currentBest
          /\ pc' = "loop" => runs' = runs
          /\ completed' # 0 => IsPrefix(runs, runs')]_vars

\* Two evaluations with different proposals have returned after a clear_runs, the
\* second of them after registering an outcome.
C13_Witness ==
    /\ cleared
    /\ pc = "idle"
    /\ completed = 2
    /\ Len(runs) = 2
    /\ runs[1][1] # runs[2][1]
    /\ runs[2][3].num > 0
    /\ ret = Returned("get_expectation", runs[2][3])

\* C14: On a fixed topology the best score found is either -inf, with no best
\* bitstring, or lies between 0 and the first component of optimal_score().
C14_BestWithinOptimum ==
    \/ ~currentScore.fin /\ currentBest = << >>
    \/ /\ currentScore.fin
       /\ currentScore.v >= 0
       /\ currentScore.v <= optimal_score(adj, N).val[1]

=========================================================================
